---- MODULE Spec2Model ----
(***************************************************************************)
(* Trip membership and permission model of the Wandr backend:              *)
(* app/services/trip_service.py (TripService), the tables of               *)
(* app/models/trip.py, the request schemas of app/schemas/trip.py and the  *)
(* HTTP mapping of app/api/v1/trips.py and app/core/exceptions.py.         *)
(*                                                                         *)
(* Every `await self.db.execute(...)` of a service method is one step that *)
(* reads the committed tables, and `await self.db.commit()` is one step    *)
(* that writes them under the constraints of the store, so that requests   *)
(* of different sessions interleave between the statements.                *)
(***************************************************************************)
EXTENDS Integers, Sequences, FiniteSets, TLC

VARIABLES
    trips,            \* table trips: id -> row
    trip_members,     \* table trip_members: set of rows
    trip_activities,  \* table trip_activities: rows in insertion order
    next_trip_id,     \* next primary key of trips
    next_member_id,   \* next primary key of trip_members
    reqs              \* requests in flight: slot -> frame of the handler

vars == <<trips, trip_members, trip_activities, next_trip_id, next_member_id, reqs>>
tables == <<trips, trip_members, trip_activities, next_trip_id, next_member_id>>

(***************************************************************************)
(* Bounds                                                                  *)
(***************************************************************************)
\* interleaved runs: rows of trip_activities
MaxActivities == 4
\* one-request-at-a-time runs: rows of trips and of trip_activities
MaxTrips == 1
MaxSeqActivities == 3
\* listing runs: rows of trips and of trip_activities
MaxListTrips == 3
MaxListActivities == 5

\* the sessions whose requests interleave
Slots == {1, 2}
\* rows of the users table (authenticated callers) and an id without a row
Users == {"u1", "u2", "u3"}
UserIds == Users \cup {"u0"}

(***************************************************************************)
(* Schemas (app/schemas/trip.py)                                           *)
(***************************************************************************)
TripStatus == {"planning", "active", "completed", "cancelled"}
TripMemberRole == {"organizer", "participant", "viewer"}
PermissionNames == {"edit", "delete", "invite", "manage_members", "view"}

EmptyDict == [k \in {} |-> TRUE]

\* TripMemberCreate(**body): role and permissions take their defaults;
\* fields_set is the model's record of the fields the body supplied
TripMemberCreate(body) ==
    [fields_set |-> DOMAIN body,
     user_id |-> body.user_id,
     role |-> IF "role" \in DOMAIN body THEN body.role ELSE "participant",
     permissions |-> IF "permissions" \in DOMAIN body THEN body.permissions
                     ELSE EmptyDict]

\* datetime.date values of the request bodies, in calendar order
Dates == <<"2024-05-20", "2024-06-01", "2024-06-05", "2024-06-10">>
DateOrdinal(d) == CHOOSE i \in 1..Len(Dates) : Dates[i] = d

\* mutant: the validator accepts every pair of dates
end_date_after_start_date_skipped(data) == TRUE

\* @field_validator("end_date") of TripBase and of TripUpdate: runs for a
\* supplied end_date, `if v and info.data.get("start_date")` then rejects
\* v < start_date; a field that was left out is None in info.data
end_date_after_start_date(data) ==
    ( /\ "end_date" \in DOMAIN data /\ data.end_date # "None"
      /\ "start_date" \in DOMAIN data /\ data.start_date # "None" )
    => ~ (DateOrdinal(data.end_date) < DateOrdinal(data.start_date))

(***************************************************************************)
(* Results of a service call and the HTTP response made of it              *)
(***************************************************************************)
Pending == [kind |-> "pending"]
ReturnNone == [kind |-> "None"]
ReturnTrue == [kind |-> "True"]
ReturnFalse == [kind |-> "False"]
ReturnTrip(id, row) == [kind |-> "Trip", id |-> id, row |-> row]
ReturnMember(row) == [kind |-> "TripMember", row |-> row]
ReturnMembers(rows) == [kind |-> "Members", rows |-> rows]
ReturnTrips(rows) == [kind |-> "Trips", rows |-> rows]

HTTPException(code, detail) ==
    [kind |-> "HTTPException", status_code |-> code, detail |-> detail]
IntegrityError == [kind |-> "IntegrityError"]
\* the body did not pass its schema: the endpoint is not entered
RequestValidationError == [kind |-> "RequestValidationError"]

Idle ==
    [op |-> "idle", pc |-> "idle", trip_id |-> 0, user_id |-> "u0",
     data |-> EmptyDict, trip |-> {}, member |-> {}, result |-> Pending]

Request(op, pc, t, u, data) ==
    [op |-> op, pc |-> pc, trip_id |-> t, user_id |-> u,
     data |-> data, trip |-> {}, member |-> {}, result |-> Pending]

Init ==
    /\ trips = [t \in {} |-> EmptyDict]
    /\ trip_members = {}
    /\ trip_activities = <<>>
    /\ next_trip_id = 1
    /\ next_member_id = 1
    /\ reqs = [s \in Slots |-> Idle]

(***************************************************************************)
(* The store: queries and constraints (app/models/trip.py)                 *)
(***************************************************************************)
\* select(TripMember).where(trip_id == t, user_id == u)
SelectTripMember(t, u) ==
    {m \in trip_members : m.trip_id = t /\ m.user_id = u}

\* mutant: the table has no unique constraint
unique_trip_member_missing(rows) == TRUE

\* UniqueConstraint("trip_id", "user_id", name="unique_trip_member")
unique_trip_member(rows) ==
    \A m1, m2 \in rows :
        (m1.trip_id = m2.trip_id /\ m1.user_id = m2.user_id) => m1.id = m2.id

\* ForeignKey("trips.id") and ForeignKey("users.id") of the two child tables
ForeignKeys(tr, ms, acts) ==
    /\ \A m \in ms : m.trip_id \in DOMAIN tr /\ m.user_id \in Users
    /\ \A i \in 1..Len(acts) :
          acts[i].trip_id \in DOMAIN tr /\ acts[i].user_id \in Users
    /\ \A t \in DOMAIN tr : tr[t].created_by \in Users

\* what a flush of the session checks before the commit becomes visible
IntegrityOK(tr, ms, acts) ==
    unique_trip_member(ms) /\ ForeignKeys(tr, ms, acts)

TripActivity(t, u, type, data) ==
    [trip_id |-> t, user_id |-> u, activity_type |-> type, activity_data |-> data]

\* mutant: every new member is stored as participant
TripMember_role_ignored(id, t, u, role, permissions) ==
    [id |-> id, trip_id |-> t, user_id |-> u, role |-> "participant",
     permissions |-> permissions]

TripMember(id, t, u, role, permissions) ==
    [id |-> id, trip_id |-> t, user_id |-> u, role |-> role,
     permissions |-> permissions]

(***************************************************************************)
(* Permission model (TripService helpers)                                  *)
(***************************************************************************)
\* mutant: the participant default grants edit
_get_default_permissions_edit(role) ==
    IF role = "organizer"
    THEN [edit |-> TRUE, delete |-> TRUE, invite |-> TRUE,
          manage_members |-> TRUE, view |-> TRUE]
    ELSE IF role = "participant"
    THEN [edit |-> TRUE, delete |-> FALSE, invite |-> FALSE,
          manage_members |-> FALSE, view |-> TRUE]
    ELSE [edit |-> FALSE, delete |-> FALSE, invite |-> FALSE,
          manage_members |-> FALSE, view |-> TRUE]

_get_default_permissions(role) ==
    IF role = "organizer"
    THEN [edit |-> TRUE, delete |-> TRUE, invite |-> TRUE,
          manage_members |-> TRUE, view |-> TRUE]
    ELSE IF role = "participant"
    THEN [edit |-> FALSE, delete |-> FALSE, invite |-> FALSE,
          manage_members |-> FALSE, view |-> TRUE]
    ELSE [edit |-> FALSE, delete |-> FALSE, invite |-> FALSE,
          manage_members |-> FALSE, view |-> TRUE]

\* mutant: the creator is not given delete
CreatorPermissions_without_delete ==
    [edit |-> TRUE, invite |-> TRUE, manage_members |-> TRUE]

\* the permission map create_trip gives the creator
CreatorPermissions ==
    [edit |-> TRUE, delete |-> TRUE, invite |-> TRUE, manage_members |-> TRUE]

\* mutant: a key that the map does not hold counts as granted
_has_trip_permission_absent_granted(t, u, permission) ==
    LET rows == SelectTripMember(t, u) IN
    IF rows = {} THEN FALSE
    ELSE LET permissions == (CHOOSE m \in rows : TRUE).permissions IN
         IF DOMAIN permissions = {} THEN FALSE
         ELSE IF permission \in DOMAIN permissions
              THEN permissions[permission]
              ELSE TRUE

\* `permissions.get(permission, False)` after `if not permissions: return False`
_has_trip_permission(t, u, permission) ==
    LET rows == SelectTripMember(t, u) IN
    IF rows = {} THEN FALSE
    ELSE LET permissions == (CHOOSE m \in rows : TRUE).permissions IN
         IF DOMAIN permissions = {} THEN FALSE
         ELSE IF permission \in DOMAIN permissions
              THEN permissions[permission]
              ELSE FALSE

\* mutant: membership counts only with the view permission
_is_trip_member_view(t, u) == _has_trip_permission(t, u, "view")

_is_trip_member(t, u) == SelectTripMember(t, u) # {}

\* mutant: the supplied map is laid over the role default
PermissionsOrDefault_merged(member_data) ==
    member_data.permissions @@ _get_default_permissions(member_data.role)

\* `member_data.permissions or self._get_default_permissions(member_data.role)`
PermissionsOrDefault(member_data) ==
    IF DOMAIN member_data.permissions # {}
    THEN member_data.permissions
    ELSE _get_default_permissions(member_data.role)

(***************************************************************************)
(* Frames of the handlers                                                  *)
(***************************************************************************)
MutatingOps == {"create_trip", "update_trip", "add_trip_member", "remove_trip_member"}

Running(s) == reqs[s].op # "idle" /\ reqs[s].pc # "done"
Done(s) == reqs[s].pc = "done"
At(s, op, pc) == reqs[s].op = op /\ reqs[s].pc = pc

\* every commit of a mutating request appends one activity: requests are
\* admitted while the log has room for all of them
ActivityBudget(max_activities) ==
    Len(trip_activities)
      + Cardinality({s \in Slots : Running(s) /\ reqs[s].op \in MutatingOps})
      < max_activities

\* trip ids are allocated in order: a trip is created while ids are left
TripBudget(trip_ids) ==
    (next_trip_id + Cardinality({s \in Slots : Running(s) /\ reqs[s].op = "create_trip"}))
      \in trip_ids

Finish(s, result) ==
    reqs' = [reqs EXCEPT ![s].pc = "done", ![s].result = result]

Goto(s, pc) == reqs' = [reqs EXCEPT ![s].pc = pc]

\* the endpoint resolves the authenticated user u and calls the service
Call(s, op, pc, t, u, data) ==
    /\ reqs[s] = Idle
    /\ reqs' = [reqs EXCEPT ![s] = Request(op, pc, t, u, data)]
    /\ UNCHANGED tables

\* the body is rejected while the request is parsed
Reject(s, op, t, u, data) ==
    /\ reqs[s] = Idle
    /\ reqs' = [reqs EXCEPT ![s] = [Request(op, "done", t, u, data)
                                     EXCEPT !.result = RequestValidationError]]
    /\ UNCHANGED tables

(***************************************************************************)
(* TripService.create_trip                                                 *)
(***************************************************************************)
api_create_trip(s, u, body) ==
    IF end_date_after_start_date(body)
    THEN Call(s, "create_trip", "commit", 0, u, body)
    ELSE Reject(s, "create_trip", 0, u, body)

\* mutant: the new trip starts as active
create_trip_active(s) ==
    /\ At(s, "create_trip", "commit")
    /\ LET r == reqs[s]
           id == next_trip_id
           trip == [title |-> r.data.title,
                    start_date |-> r.data.start_date,
                    end_date |-> r.data.end_date,
                    status |-> "active",
                    created_by |-> r.user_id]
           trip_member == TripMember(next_member_id, id, r.user_id,
                                     "organizer", CreatorPermissions)
           activity == TripActivity(id, r.user_id, "created",
                                    [title |-> trip.title])
       IN /\ trips' = trips @@ (id :> trip)
          /\ trip_members' = trip_members \cup {trip_member}
          /\ trip_activities' = Append(trip_activities, activity)
          /\ next_trip_id' = next_trip_id + 1
          /\ next_member_id' = next_member_id + 1
          /\ Finish(s, ReturnTrip(id, trip))

create_trip(s) ==
    /\ At(s, "create_trip", "commit")
    /\ LET r == reqs[s]
           id == next_trip_id
           trip == [title |-> r.data.title,
                    start_date |-> r.data.start_date,
                    end_date |-> r.data.end_date,
                    status |-> "planning",
                    created_by |-> r.user_id]
           trip_member == TripMember(next_member_id, id, r.user_id,
                                     "organizer", CreatorPermissions)
           activity == TripActivity(id, r.user_id, "created",
                                    [title |-> trip.title])
       IN /\ trips' = trips @@ (id :> trip)
          /\ trip_members' = trip_members \cup {trip_member}
          /\ trip_activities' = Append(trip_activities, activity)
          /\ next_trip_id' = next_trip_id + 1
          /\ next_member_id' = next_member_id + 1
          /\ Finish(s, ReturnTrip(id, trip))

(***************************************************************************)
(* TripService.update_trip                                                 *)
(***************************************************************************)
api_update_trip(s, t, u, patch) ==
    IF end_date_after_start_date(patch)
    THEN Call(s, "update_trip", "has_trip_permission", t, u, patch)
    ELSE Reject(s, "update_trip", t, u, patch)

\* mutant: no attribute of the loaded trip counts as changed
ChangedColumns_none(update_data, loaded) == {}

\* the columns the unit of work writes: attributes whose value changed
ChangedColumns(update_data, loaded) ==
    {f \in DOMAIN update_data : update_data[f] # loaded[f]}

\* json.dumps of the activity_data column: model_dump() keeps start_date and
\* end_date as datetime.date objects, which the serializer rejects (None and
\* the str-valued TripStatus pass)
DateFields == {"start_date", "end_date"}
\* columns of trips declared nullable=False that a TripUpdate can name
NotNullColumns == {"title"}
JsonSerializable(data) ==
    \A f \in DOMAIN data \cap DateFields : data[f] = "None"

\* mutant: a caller without edit is told so
update_trip_permission_forbidden(s) ==
    /\ At(s, "update_trip", "has_trip_permission")
    /\ IF ~ _has_trip_permission(reqs[s].trip_id, reqs[s].user_id, "edit")
       THEN Finish(s, HTTPException(403, "No permission to edit this trip"))
       ELSE Goto(s, "select_trip")
    /\ UNCHANGED tables

update_trip_permission(s) ==
    /\ At(s, "update_trip", "has_trip_permission")
    /\ IF ~ _has_trip_permission(reqs[s].trip_id, reqs[s].user_id, "edit")
       THEN Finish(s, ReturnNone)
       ELSE Goto(s, "select_trip")
    /\ UNCHANGED tables

update_trip_select(s) ==
    /\ At(s, "update_trip", "select_trip")
    /\ IF reqs[s].trip_id \notin DOMAIN trips
       THEN Finish(s, ReturnNone)
       ELSE reqs' = [reqs EXCEPT ![s].pc = "commit",
                                 ![s].trip = {trips[reqs[s].trip_id]}]
    /\ UNCHANGED tables

\* mutant: the update is committed without its activity row
update_trip_commit_unlogged(s) ==
    /\ At(s, "update_trip", "commit")
    /\ LET r == reqs[s]
           t == r.trip_id
           loaded == CHOOSE x \in r.trip : TRUE
           cols == ChangedColumns(r.data, loaded)
       IN IF t \notin DOMAIN trips /\ cols # {}
          THEN /\ Finish(s, [kind |-> "StaleDataError"])
               /\ UNCHANGED tables
          ELSE IF \E f \in cols \cap NotNullColumns : r.data[f] = "None"
          THEN /\ Finish(s, IntegrityError)
               /\ UNCHANGED tables
          ELSE IF ~ JsonSerializable(r.data) \/ t \notin DOMAIN trips
          THEN /\ Finish(s, [kind |-> "StatementError"])
               /\ UNCHANGED tables
          ELSE LET row == [f \in DOMAIN trips[t] |->
                              IF f \in cols THEN r.data[f] ELSE trips[t][f]]
               IN /\ trips' = [trips EXCEPT ![t] = row]
                  /\ UNCHANGED <<trip_members, trip_activities,
                                 next_trip_id, next_member_id>>
                  /\ Finish(s, ReturnTrip(t, row))

update_trip_commit(s) ==
    /\ At(s, "update_trip", "commit")
    /\ LET r == reqs[s]
           t == r.trip_id
           update_data == r.data
           loaded == CHOOSE x \in r.trip : TRUE
           cols == ChangedColumns(update_data, loaded)
           activity == TripActivity(t, r.user_id, "updated", update_data)
       IN \* the flush sends UPDATE trips, then INSERT INTO trip_activities; the
          \* first statement that fails ends it and get_db rolls back
          IF t \notin DOMAIN trips /\ cols # {}
          THEN \* the row is gone: UPDATE matches no row
               /\ Finish(s, [kind |-> "StaleDataError"])
               /\ UNCHANGED tables
          ELSE IF \E f \in cols \cap NotNullColumns : update_data[f] = "None"
          THEN /\ Finish(s, IntegrityError)
               /\ UNCHANGED tables
          ELSE IF ~ JsonSerializable(update_data)
          THEN /\ Finish(s, [kind |-> "StatementError"])
               /\ UNCHANGED tables
          ELSE IF t \notin DOMAIN trips
          THEN \* INSERT has no parent row
               /\ Finish(s, IntegrityError)
               /\ UNCHANGED tables
          ELSE LET row == [f \in DOMAIN trips[t] |->
                              IF f \in cols THEN update_data[f] ELSE trips[t][f]]
               IN /\ trips' = [trips EXCEPT ![t] = row]
                  /\ trip_activities' = Append(trip_activities, activity)
                  /\ UNCHANGED <<trip_members, next_trip_id, next_member_id>>
                  /\ Finish(s, ReturnTrip(t, row))

update_trip(s) ==
    update_trip_permission(s) \/ update_trip_select(s) \/ update_trip_commit(s)

(***************************************************************************)
(* TripService.delete_trip                                                 *)
(***************************************************************************)
api_delete_trip(s, t, u) ==
    Call(s, "delete_trip", "has_trip_permission", t, u, EmptyDict)

delete_trip_permission(s) ==
    /\ At(s, "delete_trip", "has_trip_permission")
    /\ IF ~ _has_trip_permission(reqs[s].trip_id, reqs[s].user_id, "delete")
       THEN Finish(s, ReturnFalse)
       ELSE Goto(s, "select_trip")
    /\ UNCHANGED tables

delete_trip_select(s) ==
    /\ At(s, "delete_trip", "select_trip")
    /\ IF reqs[s].trip_id \notin DOMAIN trips
       THEN Finish(s, ReturnFalse)
       ELSE Goto(s, "commit")
    /\ UNCHANGED tables

\* mutant: the trip row is deleted whatever rows still reference it
delete_trip_commit_unconstrained(s) ==
    /\ At(s, "delete_trip", "commit")
    /\ trips' = [x \in DOMAIN trips \ {reqs[s].trip_id} |-> trips[x]]
    /\ UNCHANGED <<trip_members, trip_activities, next_trip_id, next_member_id>>
    /\ Finish(s, ReturnTrue)

\* mutant: the delete cascades to the members and activities of the trip
delete_trip_commit_cascade(s) ==
    /\ At(s, "delete_trip", "commit")
    /\ LET t == reqs[s].trip_id IN
       /\ trips' = [x \in DOMAIN trips \ {t} |-> trips[x]]
       /\ trip_members' = {m \in trip_members : m.trip_id # t}
       /\ trip_activities' = SelectSeq(trip_activities, LAMBDA a : a.trip_id # t)
    /\ UNCHANGED <<next_trip_id, next_member_id>>
    /\ Finish(s, ReturnTrue)

\* Trip.members and Trip.activities are plain relationship()s (no delete
\* cascade, no passive_deletes): the unit of work detaches the children with
\* UPDATE ... SET trip_id = NULL before DELETE FROM trips, and trip_id is
\* nullable=False in both child tables.
delete_trip_commit(s) ==
    /\ At(s, "delete_trip", "commit")
    /\ LET t == reqs[s].trip_id
           members == {m \in trip_members : m.trip_id = t}
           activities == {i \in 1..Len(trip_activities) :
                             trip_activities[i].trip_id = t}
       IN IF members # {} \/ activities # {}
          THEN /\ Finish(s, IntegrityError)
               /\ UNCHANGED tables
          ELSE /\ trips' = [x \in DOMAIN trips \ {t} |-> trips[x]]
               /\ UNCHANGED <<trip_members, trip_activities,
                              next_trip_id, next_member_id>>
               /\ Finish(s, ReturnTrue)

delete_trip(s) ==
    delete_trip_permission(s) \/ delete_trip_select(s) \/ delete_trip_commit(s)

(***************************************************************************)
(* TripService.add_trip_member                                             *)
(***************************************************************************)
api_add_trip_member(s, t, u, body) ==
    Call(s, "add_trip_member", "has_trip_permission", t, u, TripMemberCreate(body))

add_trip_member_permission(s) ==
    /\ At(s, "add_trip_member", "has_trip_permission")
    /\ IF ~ _has_trip_permission(reqs[s].trip_id, reqs[s].user_id, "invite")
       THEN Finish(s, HTTPException(403, "No permission to add members to this trip"))
       ELSE Goto(s, "target_user")
    /\ UNCHANGED tables

\* mutant: the target user is not looked up
add_trip_member_target_unchecked(s) ==
    /\ At(s, "add_trip_member", "target_user")
    /\ Goto(s, "existing_member")
    /\ UNCHANGED tables

add_trip_member_target(s) ==
    /\ At(s, "add_trip_member", "target_user")
    /\ IF reqs[s].data.user_id \notin Users
       THEN Finish(s, HTTPException(404, "User not found"))
       ELSE Goto(s, "existing_member")
    /\ UNCHANGED tables

add_trip_member_existing(s) ==
    /\ At(s, "add_trip_member", "existing_member")
    /\ IF SelectTripMember(reqs[s].trip_id, reqs[s].data.user_id) # {}
       THEN Finish(s, HTTPException(400, "User is already a member of this trip"))
       ELSE Goto(s, "commit")
    /\ UNCHANGED tables

\* mutant: the activity row survives the failed commit of the member row
add_trip_member_commit_no_rollback(s) ==
    /\ At(s, "add_trip_member", "commit")
    /\ LET r == reqs[s]
           member_data == r.data
           trip_member == TripMember(next_member_id, r.trip_id,
                                     member_data.user_id, member_data.role,
                                     PermissionsOrDefault(member_data))
           activity == TripActivity(r.trip_id, r.user_id, "member_added",
                                    [added_user_id |-> member_data.user_id,
                                     role |-> member_data.role])
           members == trip_members \cup {trip_member}
           activities == Append(trip_activities, activity)
       IN IF IntegrityOK(trips, members, activities)
          THEN /\ trip_members' = members
               /\ trip_activities' = activities
               /\ next_member_id' = next_member_id + 1
               /\ UNCHANGED <<trips, next_trip_id>>
               /\ Finish(s, ReturnMember(trip_member))
          ELSE /\ Finish(s, IntegrityError)
               /\ trip_activities' = activities
               /\ UNCHANGED <<trips, trip_members, next_trip_id, next_member_id>>

add_trip_member_commit(s) ==
    /\ At(s, "add_trip_member", "commit")
    /\ LET r == reqs[s]
           member_data == r.data
           trip_member == TripMember(next_member_id, r.trip_id,
                                     member_data.user_id, member_data.role,
                                     PermissionsOrDefault(member_data))
           activity == TripActivity(r.trip_id, r.user_id, "member_added",
                                    [added_user_id |-> member_data.user_id,
                                     role |-> member_data.role])
           members == trip_members \cup {trip_member}
           activities == Append(trip_activities, activity)
       IN IF IntegrityOK(trips, members, activities)
          THEN /\ trip_members' = members
               /\ trip_activities' = activities
               /\ next_member_id' = next_member_id + 1
               /\ UNCHANGED <<trips, next_trip_id>>
               /\ Finish(s, ReturnMember(trip_member))
          ELSE \* get_db rolls the session back and re-raises
               /\ Finish(s, IntegrityError)
               /\ UNCHANGED tables

add_trip_member(s) ==
    \/ add_trip_member_permission(s)
    \/ add_trip_member_target(s)
    \/ add_trip_member_existing(s)
    \/ add_trip_member_commit(s)

(***************************************************************************)
(* TripService.remove_trip_member                                          *)
(***************************************************************************)
api_remove_trip_member(s, t, member_user_id, u) ==
    Call(s, "remove_trip_member", "has_trip_permission", t, u, member_user_id)

\* mutant: the permission check is skipped
remove_trip_member_permission_skipped(s) ==
    /\ At(s, "remove_trip_member", "has_trip_permission")
    /\ Goto(s, "select_trip")
    /\ UNCHANGED tables

\* mutant: the creator is looked up before the caller's permission
remove_trip_member_permission_after_creator(s) ==
    /\ At(s, "remove_trip_member", "has_trip_permission")
    /\ LET t == reqs[s].trip_id IN
       IF t \in DOMAIN trips /\ trips[t].created_by = reqs[s].data
       THEN Finish(s, HTTPException(400, "Cannot remove trip creator"))
       ELSE IF ~ _has_trip_permission(t, reqs[s].user_id, "manage_members")
       THEN Finish(s, HTTPException(403, "No permission to remove members from this trip"))
       ELSE Goto(s, "select_trip")
    /\ UNCHANGED tables

remove_trip_member_permission(s) ==
    /\ At(s, "remove_trip_member", "has_trip_permission")
    /\ IF ~ _has_trip_permission(reqs[s].trip_id, reqs[s].user_id, "manage_members")
       THEN Finish(s, HTTPException(403, "No permission to remove members from this trip"))
       ELSE Goto(s, "select_trip")
    /\ UNCHANGED tables

\* mutant: the creator is removed like any other member
remove_trip_member_creator_unprotected(s) ==
    /\ At(s, "remove_trip_member", "select_trip")
    /\ Goto(s, "select_member")
    /\ UNCHANGED tables

remove_trip_member_creator(s) ==
    /\ At(s, "remove_trip_member", "select_trip")
    /\ LET t == reqs[s].trip_id IN
       IF t \in DOMAIN trips /\ trips[t].created_by = reqs[s].data
       THEN Finish(s, HTTPException(400, "Cannot remove trip creator"))
       ELSE Goto(s, "select_member")
    /\ UNCHANGED tables

remove_trip_member_select(s) ==
    /\ At(s, "remove_trip_member", "select_member")
    /\ LET rows == SelectTripMember(reqs[s].trip_id, reqs[s].data) IN
       IF rows = {}
       THEN Finish(s, ReturnFalse)
       ELSE reqs' = [reqs EXCEPT ![s].pc = "commit",
                                 ![s].member = {CHOOSE m \in rows : TRUE}]
    /\ UNCHANGED tables

\* mutant: the removal is committed without its activity row
remove_trip_member_commit_unlogged(s) ==
    /\ At(s, "remove_trip_member", "commit")
    /\ LET member == CHOOSE m \in reqs[s].member : TRUE
           members == {m \in trip_members : m.id # member.id}
       IN IF IntegrityOK(trips, members, trip_activities)
          THEN /\ trip_members' = members
               /\ UNCHANGED <<trips, trip_activities, next_trip_id, next_member_id>>
               /\ Finish(s, ReturnTrue)
          ELSE /\ Finish(s, IntegrityError)
               /\ UNCHANGED tables

\* DELETE FROM trip_members WHERE id = member.id (a row that is already gone
\* is only warned about) and INSERT of the activity
remove_trip_member_commit(s) ==
    /\ At(s, "remove_trip_member", "commit")
    /\ LET r == reqs[s]
           member == CHOOSE m \in r.member : TRUE
           activity == TripActivity(r.trip_id, r.user_id, "member_removed",
                                    [removed_user_id |-> r.data])
           members == {m \in trip_members : m.id # member.id}
           activities == Append(trip_activities, activity)
       IN IF IntegrityOK(trips, members, activities)
          THEN /\ trip_members' = members
               /\ trip_activities' = activities
               /\ UNCHANGED <<trips, next_trip_id, next_member_id>>
               /\ Finish(s, ReturnTrue)
          ELSE /\ Finish(s, IntegrityError)
               /\ UNCHANGED tables

remove_trip_member(s) ==
    \/ remove_trip_member_permission(s)
    \/ remove_trip_member_creator(s)
    \/ remove_trip_member_select(s)
    \/ remove_trip_member_commit(s)

(***************************************************************************)
(* TripService.get_user_trips                                              *)
(***************************************************************************)
api_get_user_trips(s, u, skip, limit) ==
    Call(s, "get_user_trips", "select_trips", 0, u, [skip |-> skip, limit |-> limit])

\* Trip.created_at (the column is declared in app/models/base.py): trips get
\* their ids in the order of their creation
created_at(t) == t

\* ORDER BY trips.created_at DESC over the rows of the join, one per
\* trip_members row of the user
RECURSIVE OrderByCreatedAtDesc(_)
OrderByCreatedAtDesc(rows) ==
    IF rows = {} THEN <<>>
    ELSE LET first == CHOOSE m \in rows :
                          \A n \in rows :
                              \/ created_at(m.trip_id) > created_at(n.trip_id)
                              \/ /\ created_at(m.trip_id) = created_at(n.trip_id)
                                 /\ m.id >= n.id
         IN <<first.trip_id>> \o OrderByCreatedAtDesc(rows \ {first})

\* mutant: the offset is not applied
OffsetLimit_no_offset(seq, skip, limit) ==
    SubSeq(seq, 1, IF limit < Len(seq) THEN limit ELSE Len(seq))

\* .offset(skip).limit(limit)
OffsetLimit(seq, skip, limit) ==
    SubSeq(seq, skip + 1, IF skip + limit < Len(seq) THEN skip + limit ELSE Len(seq))

\* select(Trip).join(TripMember).where(TripMember.user_id == user_id)
get_user_trips(s) ==
    /\ At(s, "get_user_trips", "select_trips")
    /\ LET joined == {m \in trip_members :
                        m.trip_id \in DOMAIN trips /\ m.user_id = reqs[s].user_id}
           ids == OffsetLimit(OrderByCreatedAtDesc(joined),
                              reqs[s].data.skip, reqs[s].data.limit)
       IN Finish(s, ReturnTrips([i \in 1..Len(ids) |->
                                    [id |-> ids[i], row |-> trips[ids[i]]]]))
    /\ UNCHANGED tables

(***************************************************************************)
(* TripService.get_trip_by_id                                              *)
(***************************************************************************)
api_get_trip(s, t, u) ==
    Call(s, "get_trip_by_id", "select_trip", t, u, EmptyDict)

\* select(Trip).join(TripMember).where(Trip.id == t, TripMember.user_id == u)
\* and scalar_one_or_none() of its rows
get_trip_by_id(s) ==
    /\ At(s, "get_trip_by_id", "select_trip")
    /\ LET t == reqs[s].trip_id
           rows == {m \in trip_members :
                      /\ m.trip_id \in DOMAIN trips
                      /\ m.trip_id = t
                      /\ m.user_id = reqs[s].user_id}
       IN Finish(s, IF rows = {} THEN ReturnNone
                    ELSE IF Cardinality(rows) = 1 THEN ReturnTrip(t, trips[t])
                    ELSE [kind |-> "MultipleResultsFound"])
    /\ UNCHANGED tables

(***************************************************************************)
(* TripService.get_user_role_in_trip                                       *)
(***************************************************************************)
call_get_user_role_in_trip(s, t, u) ==
    Call(s, "get_user_role_in_trip", "select_role", t, u, EmptyDict)

\* select(TripMember.role).where(trip_id == t, user_id == u), scalar_one_or_none()
get_user_role_in_trip(s) ==
    /\ At(s, "get_user_role_in_trip", "select_role")
    /\ LET rows == SelectTripMember(reqs[s].trip_id, reqs[s].user_id)
       IN Finish(s, IF rows = {} THEN ReturnNone
                    ELSE IF Cardinality(rows) = 1
                    THEN [kind |-> "Role", role |-> (CHOOSE m \in rows : TRUE).role]
                    ELSE [kind |-> "MultipleResultsFound"])
    /\ UNCHANGED tables

(***************************************************************************)
(* TripService.get_trip_members                                            *)
(***************************************************************************)
api_get_trip_members(s, t, u) ==
    Call(s, "get_trip_members", "is_trip_member", t, u, EmptyDict)

get_trip_members_access(s) ==
    /\ At(s, "get_trip_members", "is_trip_member")
    /\ IF ~ _is_trip_member(reqs[s].trip_id, reqs[s].user_id)
       THEN Finish(s, HTTPException(403, "No access to this trip"))
       ELSE Goto(s, "select_members")
    /\ UNCHANGED tables

get_trip_members_select(s) ==
    /\ At(s, "get_trip_members", "select_members")
    /\ Finish(s, ReturnMembers({m \in trip_members : m.trip_id = reqs[s].trip_id}))
    /\ UNCHANGED tables

get_trip_members(s) ==
    get_trip_members_access(s) \/ get_trip_members_select(s)

(***************************************************************************)
(* HTTP layer (app/api/v1/trips.py, app/core/exceptions.py)                *)
(***************************************************************************)
Response(code, detail) == [status_code |-> code, detail |-> detail]

\* mutant: IntegrityError has no handler and ends as a server error
HttpResponse_unhandled(r) ==
    IF r.result.kind = "HTTPException"
    THEN Response(r.result.status_code, r.result.detail)
    ELSE IF r.result.kind = "RequestValidationError"
    THEN Response(422, "Unprocessable Entity")
    ELSE IF r.result.kind \in {"IntegrityError", "StaleDataError",
                               "StatementError", "MultipleResultsFound"}
    THEN Response(500, "Internal Server Error")
    ELSE IF r.op = "get_trip_by_id" /\ r.result.kind = "None"
    THEN Response(404, "Trip not found or no access")
    ELSE IF r.op = "update_trip" /\ r.result.kind = "None"
    THEN Response(404, "Trip not found or no permission to edit")
    ELSE IF r.op = "delete_trip" /\ r.result.kind = "False"
    THEN Response(404, "Trip not found or no permission to delete")
    ELSE Response(200, "")

\* mutant: the endpoint answers a refused update with 403
HttpResponse_forbidden(r) ==
    IF r.result.kind = "HTTPException"
    THEN Response(r.result.status_code, r.result.detail)
    ELSE IF r.result.kind = "RequestValidationError"
    THEN Response(422, "Unprocessable Entity")
    ELSE IF r.result.kind = "IntegrityError"
    THEN Response(400, "Database constraint violation")
    ELSE IF r.result.kind \in {"StaleDataError", "StatementError",
                               "MultipleResultsFound"}
    THEN Response(500, "Internal Server Error")
    ELSE IF r.op = "get_trip_by_id" /\ r.result.kind = "None"
    THEN Response(404, "Trip not found or no access")
    ELSE IF r.op = "update_trip" /\ r.result.kind = "None"
    THEN Response(403, "No permission to edit this trip")
    ELSE IF r.op = "delete_trip" /\ r.result.kind = "False"
    THEN Response(404, "Trip not found or no permission to delete")
    ELSE Response(200, "")

\* the response the endpoint of r.op makes of the service result
HttpResponse(r) ==
    IF r.result.kind = "HTTPException"
    THEN Response(r.result.status_code, r.result.detail)
    ELSE IF r.result.kind = "RequestValidationError"
    THEN Response(422, "Unprocessable Entity")
    ELSE IF r.result.kind = "IntegrityError"
    THEN Response(400, "Database constraint violation")
    ELSE IF r.result.kind \in {"StaleDataError", "StatementError",
                               "MultipleResultsFound"}
    THEN Response(500, "Internal Server Error")
    ELSE IF r.op = "get_trip_by_id" /\ r.result.kind = "None"
    THEN Response(404, "Trip not found or no access")
    ELSE IF r.op = "update_trip" /\ r.result.kind = "None"
    THEN Response(404, "Trip not found or no permission to edit")
    ELSE IF r.op = "delete_trip" /\ r.result.kind = "False"
    THEN Response(404, "Trip not found or no permission to delete")
    ELSE IF r.op = "delete_trip"
    THEN Response(200, "Trip deleted successfully")
    ELSE IF r.op = "remove_trip_member" /\ r.result.kind = "False"
    THEN Response(200, "Member not found in trip")
    ELSE IF r.op = "remove_trip_member"
    THEN Response(200, "Member removed successfully")
    ELSE Response(200, "")

\* the response is sent and the session closed
Respond(s) ==
    /\ Done(s)
    /\ reqs' = [reqs EXCEPT ![s] = Idle]
    /\ UNCHANGED tables

(***************************************************************************)
(* Request bodies                                                          *)
(***************************************************************************)
\* a JSON field that is present (opt = {v}) or left out (opt = {})
Field(name, opt) ==
    [k \in (IF opt = {} THEN {} ELSE {name}) |-> CHOOSE v \in opt : TRUE]

MemberBody(user_id, role, permissions) ==
    [user_id |-> user_id] @@ Field("role", role) @@ Field("permissions", permissions)

TripBodies ==
    {[title |-> "Road Trip", start_date |-> "2024-06-01", end_date |-> "2024-06-10"],
     [title |-> "Road Trip", start_date |-> "2024-06-10", end_date |-> "2024-06-01"]}

\* callers and bodies of the interleaved runs
Interleaved ==
    [max_activities |-> MaxActivities,
     trip_ids |-> {1},
     callers |-> {"u1", "u2"},
     patches |-> {[title |-> "Camping"]},
     bodies |-> {MemberBody(x, role, {}) :
                    x \in {"u2", "u3"}, role \in {{}, {"organizer"}}},
     targets |-> Users]

\* bodies of the one-request-at-a-time runs
PermissionDicts ==
    {EmptyDict,
     [edit |-> TRUE],
     [view |-> FALSE],
     [invite |-> TRUE, manage_members |-> TRUE],
     [edit |-> FALSE, delete |-> TRUE, invite |-> TRUE,
      manage_members |-> FALSE, view |-> TRUE]}
SeqPatches ==
    {EmptyDict, [title |-> "Camping"], [status |-> "active"],
     [title |-> "Road Trip", status |-> "cancelled"],
     [start_date |-> "2024-06-05"],
     [end_date |-> "2024-05-20"],
     [start_date |-> "2024-06-10", end_date |-> "2024-06-05"],
     [start_date |-> "None"],
     [status |-> "None"],
     [title |-> "None"]}
SeqMemberBodies ==
    {MemberBody(x, role, {}) :
        x \in UserIds, role \in {{}} \cup {{ro} : ro \in TripMemberRole}}
    \cup {MemberBody(x, {"viewer"}, {d}) : x \in UserIds, d \in PermissionDicts}

(***************************************************************************)
(* Specifications                                                          *)
(***************************************************************************)
Handler(s) ==
    \/ create_trip(s)
    \/ get_trip_by_id(s)
    \/ update_trip(s)
    \/ delete_trip(s)
    \/ add_trip_member(s)
    \/ remove_trip_member(s)
    \/ get_trip_members(s)
    \/ get_user_role_in_trip(s)

\* a request of caller u arrives at an endpoint, with inputs drawn from c
Arrive(s, c) ==
    \/ /\ ActivityBudget(c.max_activities) /\ TripBudget(c.trip_ids)
       /\ \E u \in c.callers, body \in TripBodies : api_create_trip(s, u, body)
    \/ /\ ActivityBudget(c.max_activities)
       /\ \E t \in c.trip_ids, u \in c.callers, patch \in c.patches :
             api_update_trip(s, t, u, patch)
    \/ \E t \in c.trip_ids, u \in c.callers : api_delete_trip(s, t, u)
    \/ /\ ActivityBudget(c.max_activities)
       /\ \E t \in c.trip_ids, u \in c.callers, body \in c.bodies :
             api_add_trip_member(s, t, u, body)
    \/ /\ ActivityBudget(c.max_activities)
       /\ \E t \in c.trip_ids, u \in c.callers, x \in c.targets :
             api_remove_trip_member(s, t, x, u)
    \/ \E t \in c.trip_ids, u \in c.callers : api_get_trip_members(s, t, u)
    \/ \E t \in c.trip_ids, u \in c.callers : api_get_trip(s, t, u)
    \/ \E t \in c.trip_ids, u \in c.callers : call_get_user_role_in_trip(s, t, u)

\* requests of independent sessions, interleaved statement by statement; a
\* finished handler sends its response before anything else happens
Next ==
    \/ \E s \in Slots : Respond(s)
    \/ /\ \A s \in Slots : ~ Done(s)
       /\ \E s \in Slots : Arrive(s, Interleaved) \/ Handler(s)

Spec == Init /\ [][Next]_vars

\* one request at a time: each call runs to completion before the next
OneAtATime ==
    [max_activities |-> MaxSeqActivities,
     trip_ids |-> 1..MaxTrips,
     callers |-> Users,
     patches |-> SeqPatches,
     bodies |-> SeqMemberBodies,
     targets |-> UserIds]

NextSeq ==
    \/ (\A s \in Slots : reqs[s] = Idle) /\ Arrive(1, OneAtATime)
    \/ Handler(1)
    \/ Respond(1)

SpecSeq == Init /\ [][NextSeq]_vars

\* two sessions adding members to a trip nobody else touches: the state after
\* create_trip by u1 and add_trip_member of u2 as organizer, then adds only
InitAdd ==
    /\ trips = (1 :> [title |-> "Road Trip", start_date |-> "2024-06-01",
                      end_date |-> "2024-06-10", status |-> "planning",
                      created_by |-> "u1"])
    /\ trip_members =
          {TripMember(1, 1, "u1", "organizer", CreatorPermissions),
           TripMember(2, 1, "u2", "organizer", _get_default_permissions("organizer"))}
    /\ trip_activities =
          <<TripActivity(1, "u1", "created", [title |-> "Road Trip"]),
            TripActivity(1, "u1", "member_added",
                         [added_user_id |-> "u2", role |-> "organizer"])>>
    /\ next_trip_id = 2
    /\ next_member_id = 3
    /\ reqs = [s \in Slots |-> Idle]

NextAdd ==
    \E s \in Slots :
        \/ /\ ActivityBudget(MaxActivities)
           /\ \E t \in Interleaved.trip_ids, u \in Interleaved.callers,
                 body \in Interleaved.bodies : api_add_trip_member(s, t, u, body)
        \/ add_trip_member(s)

SpecAdd == InitAdd /\ [][NextAdd]_vars

\* trips of two users, created and shared one request at a time, and listed
\* page by page
Listing ==
    [max_activities |-> MaxListActivities,
     trip_ids |-> 1..MaxListTrips,
     callers |-> {"u1", "u2"},
     bodies |-> {MemberBody(x, {}, {}) : x \in {"u1", "u2"}},
     skips |-> {0, 1, 2},
     limits |-> {1, 2, 100}]

NextList ==
    \/ /\ \A s \in Slots : reqs[s] = Idle
       /\ \/ /\ ActivityBudget(Listing.max_activities) /\ TripBudget(Listing.trip_ids)
             /\ \E u \in Listing.callers :
                   api_create_trip(1, u, [title |-> "Road Trip",
                                          start_date |-> "2024-06-01",
                                          end_date |-> "2024-06-10"])
          \/ /\ ActivityBudget(Listing.max_activities)
             /\ \E t \in Listing.trip_ids, u \in Listing.callers, body \in Listing.bodies :
                   api_add_trip_member(1, t, u, body)
          \/ /\ ActivityBudget(Listing.max_activities)
             /\ \E t \in Listing.trip_ids, u, x \in Listing.callers :
                   api_remove_trip_member(1, t, x, u)
          \/ \E u \in Listing.callers, skip \in Listing.skips, limit \in Listing.limits :
                api_get_user_trips(1, u, skip, limit)
    \/ create_trip(1)
    \/ add_trip_member(1)
    \/ remove_trip_member(1)
    \/ get_user_trips(1)
    \/ Respond(1)

SpecList == Init /\ [][NextList]_vars

(***************************************************************************)
(* Properties                                                              *)
(***************************************************************************)
Succeeded(r) == r.result.kind \in {"Trip", "TripMember", "Members", "True", "Trips", "Role"}
Failed(r) ==
    r.result.kind \in {"None", "False", "HTTPException", "IntegrityError",
                       "StaleDataError", "StatementError", "MultipleResultsFound",
                       "RequestValidationError"}
DoneOp(s, op) == Done(s) /\ reqs[s].op = op

\* the permission map the table holds for (t, u)
StoredPermissions(t, u) == (CHOOSE m \in SelectTripMember(t, u) : TRUE).permissions

AlreadyMember == HTTPException(400, "User is already a member of this trip")
CannotRemoveCreator == HTTPException(400, "Cannot remove trip creator")
NoPermissionToRemove ==
    HTTPException(403, "No permission to remove members from this trip")
NotFoundOrNoEdit == Response(404, "Trip not found or no permission to edit")

C2_AtMostOneMembership ==
    \A t \in DOMAIN trips, u \in UserIds : Cardinality(SelectTripMember(t, u)) <= 1

\* two sessions raced on the same pair and the constraint rejected one commit
C2_Witness ==
    \E s \in Slots :
        /\ DoneOp(s, "add_trip_member")
        /\ reqs[s].result = IntegrityError
        /\ Cardinality(SelectTripMember(reqs[s].trip_id, reqs[s].data.user_id)) = 1

\* C3: two add_trip_member requests for the same (trip, target), both by
\* callers holding invite, with the target not a member before them: exactly
\* one returns the member, the other gets a 400 conflict, and afterwards one
\* membership and one member_added activity of the target exist.
MemberAdded(t, x) ==
    {i \in 1..Len(trip_activities) :
        /\ trip_activities[i].trip_id = t
        /\ trip_activities[i].activity_type = "member_added"
        /\ trip_activities[i].activity_data.added_user_id = x}

C3_OneOfTwoAdds ==
    \A s1, s2 \in Slots :
        ( /\ s1 # s2
          /\ DoneOp(s1, "add_trip_member") /\ DoneOp(s2, "add_trip_member")
          /\ reqs[s1].trip_id = reqs[s2].trip_id
          /\ reqs[s1].data.user_id = reqs[s2].data.user_id
          /\ HttpResponse(reqs[s1]).status_code # 403
          /\ HttpResponse(reqs[s2]).status_code # 403
          \* the target was not a member before both: not both were told so
          /\ ~ (reqs[s1].result = AlreadyMember /\ reqs[s2].result = AlreadyMember) )
        => LET t == reqs[s1].trip_id
               x == reqs[s1].data.user_id
               won == {s \in {s1, s2} : reqs[s].result.kind = "TripMember"}
           IN /\ Cardinality(won) = 1
              /\ \A s \in {s1, s2} \ won : HttpResponse(reqs[s]).status_code = 400
              /\ Cardinality(SelectTripMember(t, x)) = 1
              /\ Cardinality(MemberAdded(t, x)) = 1

\* both requests passed the existing-member check and one commit was refused
C3_Witness ==
    \E s1, s2 \in Slots :
        /\ DoneOp(s1, "add_trip_member") /\ DoneOp(s2, "add_trip_member")
        /\ reqs[s1].user_id # reqs[s2].user_id
        /\ reqs[s1].data.user_id = reqs[s2].data.user_id
        /\ reqs[s1].result.kind = "TripMember"
        /\ reqs[s2].result = IntegrityError
        /\ HttpResponse(reqs[s2]) = Response(400, "Database constraint violation")

\* a finished remove_trip_member whose target is the creator of its trip
RemovedCreator(s) ==
    /\ DoneOp(s, "remove_trip_member")
    /\ reqs[s].trip_id \in DOMAIN trips
    /\ trips[reqs[s].trip_id].created_by = reqs[s].data

\* C4 as stated: remove_trip_member of the trip's creator fails with "cannot
\* remove creator" for every caller, whatever the caller's permissions.
C4_AlwaysInvalidOperation ==
    \A s \in Slots : RemovedCreator(s) => reqs[s].result = CannotRemoveCreator

\* C4 amended: remove_trip_member of the trip's creator never succeeds and
\* leaves the creator's membership in place; it fails with "cannot remove
\* creator" for a caller holding manage_members and with forbidden for a
\* caller who lacks it.
C4_CreatorRemovalFails ==
    \A s \in Slots :
        RemovedCreator(s) =>
            LET t == reqs[s].trip_id IN
            /\ reqs[s].result =
                  IF _has_trip_permission(t, reqs[s].user_id, "manage_members")
                  THEN CannotRemoveCreator
                  ELSE NoPermissionToRemove
            /\ SelectTripMember(t, reqs[s].data) # {}

\* a member other than the creator, holding manage_members, tried it
C4_Witness ==
    \E s \in Slots :
        /\ RemovedCreator(s)
        /\ reqs[s].user_id # reqs[s].data
        /\ reqs[s].result = CannotRemoveCreator

\* C5: every existing trip has a trip_members row of its created_by user, in
\* every state of every interleaving of the service's operations.
C5_CreatorStaysMember ==
    \A t \in DOMAIN trips : SelectTripMember(t, trips[t].created_by) # {}

\* a member was removed from a trip and a removal of its creator was refused
C5_Witness ==
    \E s \in Slots :
        /\ RemovedCreator(s)
        /\ Failed(reqs[s])
        /\ \E i \in 1..Len(trip_activities) :
              trip_activities[i].activity_type = "member_removed"

UpdateByStranger(s) ==
    /\ DoneOp(s, "update_trip")
    /\ reqs[s].result # RequestValidationError
    /\ reqs[s].trip_id \in DOMAIN trips
    /\ ~ _is_trip_member(reqs[s].trip_id, reqs[s].user_id)

C8_FailureChangesNothing ==
    [][\A s \in Slots :
          ( \/ /\ ~ Done(s)
               /\ reqs'[s].pc = "done"
               /\ Failed(reqs'[s])
            \/ /\ Running(s)
               /\ reqs'[s] # reqs[s]
               /\ reqs'[s].pc # "done" )
          => UNCHANGED <<trips, trip_members, trip_activities>>]_vars

\* an add for a user who already is a member was refused on a trip with a log
C8_Witness ==
    \E s \in Slots :
        /\ DoneOp(s, "add_trip_member")
        /\ reqs[s].result = AlreadyMember
        /\ Len(trip_activities) >= 2

\* a finished add_trip_member that returned the new member
Added(s) == DoneOp(s, "add_trip_member") /\ reqs[s].result.kind = "TripMember"

\* C9 as stated: when the body supplies a permissions map, whatever its
\* contents, the stored permissions are exactly that map.
C9_ExplicitMapStored ==
    \A s \in Slots :
        (Added(s) /\ "permissions" \in reqs[s].data.fields_set)
        => StoredPermissions(reqs[s].trip_id, reqs[s].data.user_id)
              = reqs[s].data.permissions

\* C9 amended: when the body supplies a permissions map with at least one key,
\* the stored permissions are exactly that map (no key of the role default is
\* merged in); an empty map is treated as no map and the role default is stored.
C9_NonEmptyMapStored ==
    \A s \in Slots :
        (Added(s) /\ "permissions" \in reqs[s].data.fields_set)
        => LET stored == StoredPermissions(reqs[s].trip_id, reqs[s].data.user_id)
               given == reqs[s].data.permissions
           IN IF DOMAIN given # {}
              THEN /\ DOMAIN stored = DOMAIN given
                   /\ \A k \in DOMAIN given : stored[k] = given[k]
              ELSE /\ DOMAIN stored = PermissionNames
                   /\ \A k \in PermissionNames :
                         stored[k] = (k = "view" \/ reqs[s].data.role = "organizer")

\* role viewer with permissions {edit: true}: edit is true and there is no view key
C9_Witness ==
    \E s \in Slots :
        /\ Added(s)
        /\ reqs[s].data.role = "viewer"
        /\ reqs[s].data.permissions = [edit |-> TRUE]
        /\ LET stored == StoredPermissions(reqs[s].trip_id, reqs[s].data.user_id)
           IN stored.edit /\ "view" \notin DOMAIN stored

\* C10: when the body supplies no permissions, the stored permissions are the
\* default of the role (participant when the body has no role): organizer has
\* all five true, participant and viewer have view true and the rest false.
C10_RoleDefaultStored ==
    \A s \in Slots :
        (Added(s) /\ "permissions" \notin reqs[s].data.fields_set)
        => LET m == CHOOSE m \in SelectTripMember(reqs[s].trip_id, reqs[s].data.user_id) : TRUE
           IN /\ ("role" \notin reqs[s].data.fields_set => m.role = "participant")
              /\ DOMAIN m.permissions = PermissionNames
              /\ (m.role = "organizer" => \A k \in PermissionNames : m.permissions[k])
              /\ (m.role \in {"participant", "viewer"} =>
                    \A k \in PermissionNames : m.permissions[k] = (k = "view"))

\* a body with neither role nor permissions made a participant with view only
C10_Witness ==
    \E s \in Slots :
        /\ Added(s)
        /\ reqs[s].data.fields_set = {"user_id"}
        /\ \E m \in SelectTripMember(reqs[s].trip_id, reqs[s].data.user_id) :
              m.role = "participant" /\ m.permissions.view /\ ~ m.permissions.edit

\* the step in which the handler of op in slot s returns or raises
Finishes(s, op) == reqs[s].op = op /\ ~ Done(s) /\ reqs'[s].pc = "done"

UserNotFound == HTTPException(404, "User not found")
NoPermissionToAdd == HTTPException(403, "No permission to add members to this trip")

\* C11: add_trip_member(t, member_data, u) raises 403 when u lacks invite on t
\* (also when t does not exist or u is no member); otherwise 404 when the target
\* user does not exist; otherwise the 400 conflict when the target already is a
\* member of t; and it returns the new member exactly when none of the three holds.
C11_AddPrecedence ==
    [][\A s \in Slots :
          Finishes(s, "add_trip_member") =>
              LET t == reqs[s].trip_id
                  u == reqs[s].user_id
                  x == reqs[s].data.user_id
              IN IF ~ _has_trip_permission(t, u, "invite")
                 THEN reqs'[s].result = NoPermissionToAdd
                 ELSE IF x \notin Users
                 THEN reqs'[s].result = UserNotFound
                 ELSE IF SelectTripMember(t, x) # {}
                 THEN reqs'[s].result = AlreadyMember
                 ELSE reqs'[s].result.kind = "TripMember"]_vars

\* a member without invite named a user that does not exist: forbidden wins
C11_Witness ==
    \E s \in Slots :
        /\ DoneOp(s, "add_trip_member")
        /\ _is_trip_member(reqs[s].trip_id, reqs[s].user_id)
        /\ reqs[s].data.user_id \notin Users
        /\ reqs[s].result = NoPermissionToAdd

\* C12: a successful add_trip_member(t, member_data, u) inserts exactly one
\* trip_members row, for (t, member_data.user_id) with the requested role, which
\* is among the rows get_trip_members selects for t; it appends exactly one
\* member_added activity with actor u and data {added_user_id, role}; every
\* other trip_members row and every trip stay as they were.
C12_AddCreatesOneMembership ==
    [][\A s \in Slots :
          (Finishes(s, "add_trip_member") /\ reqs'[s].result.kind = "TripMember") =>
              LET t == reqs[s].trip_id
                  x == reqs[s].data.user_id
                  m == reqs'[s].result.row
              IN /\ SelectTripMember(t, x) = {}
                 /\ trip_members' = trip_members \cup {m}
                 /\ m.trip_id = t /\ m.user_id = x
                 /\ m.role = reqs[s].data.role
                 /\ ("role" \notin reqs[s].data.fields_set => m.role = "participant")
                 /\ m \in {r \in trip_members' : r.trip_id = t}
                 /\ trip_activities' =
                       Append(trip_activities,
                              [trip_id |-> t, user_id |-> reqs[s].user_id,
                               activity_type |-> "member_added",
                               activity_data |-> [added_user_id |-> x,
                                                  role |-> m.role]])
                 /\ trips' = trips]_vars

\* get_trip_members returned a member who was added as organizer, after the
\* add was logged
C12_Witness ==
    \E s \in Slots :
        /\ DoneOp(s, "get_trip_members")
        /\ reqs[s].result.kind = "Members"
        /\ \E m \in reqs[s].result.rows :
              /\ m.role = "organizer"
              /\ m.user_id # trips[m.trip_id].created_by
              /\ Cardinality(MemberAdded(m.trip_id, m.user_id)) = 1

\* C13: remove_trip_member(t, x, u) deletes a trip_members row only when u
\* holds manage_members on t when the call is made; when u lacks it (u is no
\* member, or t does not exist) the call raises 403.
C13_RemoveNeedsManageMembers ==
    [][\A s \in Slots :
          Finishes(s, "remove_trip_member") =>
              LET held == _has_trip_permission(reqs[s].trip_id, reqs[s].user_id,
                                               "manage_members")
              IN /\ ~ held => /\ reqs'[s].result = NoPermissionToRemove
                              /\ trip_members' = trip_members
                 /\ trip_members' # trip_members => held]_vars

\* an organizer other than the creator removed their own membership, and with
\* it the permission the removal needed
C13_Witness ==
    \E s \in Slots :
        /\ DoneOp(s, "remove_trip_member")
        /\ reqs[s].result = ReturnTrue
        /\ reqs[s].user_id = reqs[s].data
        /\ ~ _has_trip_permission(reqs[s].trip_id, reqs[s].user_id, "manage_members")

\* C14: for a caller u holding manage_members on t and a target x that is not
\* the creator of t, remove_trip_member(t, x, u) returns False and writes
\* nothing when x has no membership in t; otherwise it deletes exactly the row
\* of (t, x), appends exactly one member_removed activity with actor u and data
\* {removed_user_id: x}, returns True, and x is not among the rows
\* get_trip_members selects for t.
C14_RemoveDeletesOneMembership ==
    [][\A s \in Slots :
          LET t == reqs[s].trip_id
              u == reqs[s].user_id
              x == reqs[s].data
          IN ( /\ Finishes(s, "remove_trip_member")
               /\ _has_trip_permission(t, u, "manage_members")
               /\ trips[t].created_by # x )
             => IF SelectTripMember(t, x) = {}
                THEN /\ reqs'[s].result = ReturnFalse
                     /\ UNCHANGED tables
                ELSE /\ reqs'[s].result = ReturnTrue
                     /\ Cardinality(SelectTripMember(t, x)) = 1
                     /\ trip_members' = trip_members \ SelectTripMember(t, x)
                     /\ ~ \E m \in trip_members' : m.trip_id = t /\ m.user_id = x
                     /\ trip_activities' =
                           Append(trip_activities,
                                  [trip_id |-> t, user_id |-> u,
                                   activity_type |-> "member_removed",
                                   activity_data |-> [removed_user_id |-> x]])
                     /\ trips' = trips]_vars

\* the creator removed a member the creator had added: the row is gone and the
\* removal is the last record of the log
C14_Witness ==
    \E s \in Slots :
        /\ DoneOp(s, "remove_trip_member")
        /\ reqs[s].result = ReturnTrue
        /\ reqs[s].user_id # reqs[s].data
        /\ SelectTripMember(reqs[s].trip_id, reqs[s].data) = {}
        /\ Cardinality(MemberAdded(reqs[s].trip_id, reqs[s].data)) = 1
        /\ trip_activities[Len(trip_activities)].activity_type = "member_removed"

NoAccess == HTTPException(403, "No access to this trip")

\* C15: reads are governed by membership alone. get_trip_by_id(t, u) returns
\* the trip iff u has a trip_members row in t and None (404) otherwise;
\* get_trip_members(t, u) returns all rows of t iff u has a row in t and raises
\* 403 otherwise; the permission map of u, with view absent or false, plays no
\* part, and a user whose row was removed is refused by both.
C15_ReadByMembership ==
    \A s \in Slots :
        LET t == reqs[s].trip_id
            member == SelectTripMember(t, reqs[s].user_id) # {}
        IN /\ DoneOp(s, "get_trip_by_id") =>
                 IF member
                 THEN reqs[s].result = ReturnTrip(t, trips[t])
                 ELSE /\ reqs[s].result = ReturnNone
                      /\ HttpResponse(reqs[s]).status_code = 404
           /\ DoneOp(s, "get_trip_members") =>
                 IF member
                 THEN reqs[s].result =
                         ReturnMembers({m \in trip_members : m.trip_id = t})
                 ELSE reqs[s].result = NoAccess

\* a member whose permission map is {view: false} was given the member list
C15_Witness ==
    \E s \in Slots :
        /\ DoneOp(s, "get_trip_members")
        /\ reqs[s].result.kind = "Members"
        /\ StoredPermissions(reqs[s].trip_id, reqs[s].user_id) = [view |-> FALSE]

\* C16: delete_trip(t, u) returns True and removes the trips row iff t exists
\* and u holds delete on t, and returns False in every other case; after a
\* delete that returned True no user, the former creator included, is given
\* the trip by get_trip_by_id.
C16_DeleteIffPermitted ==
    [][\A s \in Slots :
          Finishes(s, "delete_trip") =>
              LET t == reqs[s].trip_id IN
              IF t \in DOMAIN trips /\ _has_trip_permission(t, reqs[s].user_id, "delete")
              THEN /\ reqs'[s].result = ReturnTrue
                   /\ t \notin DOMAIN trips'
              ELSE /\ reqs'[s].result = ReturnFalse
                   /\ UNCHANGED tables]_vars

\* the rows of trip_members and trip_activities that reference trip t
RowsOfTrip(t) ==
    [members |-> {m \in trip_members : m.trip_id = t},
     activities |-> {i \in 1..Len(trip_activities) : trip_activities[i].trip_id = t}]

AllMutatingOps == MutatingOps \cup {"delete_trip"}

C19_ActivitiesAppendOnly ==
    [][/\ Len(trip_activities') >= Len(trip_activities)
       /\ \A i \in 1..Len(trip_activities) : trip_activities'[i] = trip_activities[i]]_vars

\* a delete_trip by a holder of delete ended and the log of the trip is whole
C19_Witness ==
    \E s \in Slots :
        /\ DoneOp(s, "delete_trip")
        /\ Failed(reqs[s])
        /\ ~ (reqs[s].result = ReturnFalse)
        /\ Len(trip_activities) >= 3
        /\ \A i \in 1..Len(trip_activities) :
              trip_activities[i].trip_id = reqs[s].trip_id

\* C20: a successful update_trip(t, patch, u) sets the fields the patch holds
\* to the patch's values and leaves every other field of the trip, created_by
\* among them, every other trip and every trip_members row as they were, and
\* appends exactly one updated activity whose data is the patch; no step of any
\* operation changes the created_by of a trip.
C20_UpdateAppliesPatchOnly ==
    [][/\ \A s \in Slots :
             (Finishes(s, "update_trip") /\ reqs'[s].result.kind = "Trip") =>
                 LET t == reqs[s].trip_id
                     patch == reqs[s].data
                 IN /\ DOMAIN trips' = DOMAIN trips
                    /\ \A f \in DOMAIN trips[t] :
                          trips'[t][f] = IF f \in DOMAIN patch THEN patch[f]
                                         ELSE trips[t][f]
                    /\ \A t2 \in DOMAIN trips \ {t} : trips'[t2] = trips[t2]
                    /\ reqs'[s].result.row = trips'[t]
                    /\ trip_members' = trip_members
                    /\ trip_activities' =
                          Append(trip_activities,
                                 [trip_id |-> t, user_id |-> reqs[s].user_id,
                                  activity_type |-> "updated",
                                  activity_data |-> patch])
       /\ \A t \in DOMAIN trips \cap DOMAIN trips' :
             trips'[t].created_by = trips[t].created_by]_vars

\* a patch of title and status was applied by a member other than the creator:
\* the status is the patch's and the creator is who it was
C20_Witness ==
    \E s \in Slots :
        /\ DoneOp(s, "update_trip")
        /\ reqs[s].result.kind = "Trip"
        /\ DOMAIN reqs[s].data = {"title", "status"}
        /\ trips[reqs[s].trip_id].status = reqs[s].data.status
        /\ trips[reqs[s].trip_id].start_date = "2024-06-01"
        /\ trips[reqs[s].trip_id].created_by # reqs[s].user_id

\* C21: create_trip(data, u) needs no permission and, for a body that passed
\* its schema, always returns the new trip; the trip has created_by = u and
\* status planning, and the log of the trip is exactly one record: type
\* created, actor u, data {title: the trip's title}.
C21_CreateTripPlanned ==
    [][\A s \in Slots :
          /\ ( /\ reqs[s] = Idle /\ reqs'[s].op = "create_trip"
               /\ end_date_after_start_date(reqs'[s].data) )
             => reqs'[s].pc = "commit"
          /\ Finishes(s, "create_trip") =>
                /\ reqs'[s].result.kind = "Trip"
                /\ LET id == reqs'[s].result.id
                       u == reqs[s].user_id
                   IN /\ id \notin DOMAIN trips /\ id \in DOMAIN trips'
                      /\ trips'[id].created_by = u
                      /\ trips'[id].status = "planning"
                      /\ trips'[id].title = reqs[s].data.title
                      /\ SelectSeq(trip_activities', LAMBDA a : a.trip_id = id)
                            = << [trip_id |-> id, user_id |-> u,
                                  activity_type |-> "created",
                                  activity_data |-> [title |-> trips'[id].title]] >>]_vars

\* a user who was a member of nothing created a trip
C21_Witness ==
    \E s \in Slots :
        /\ DoneOp(s, "create_trip")
        /\ reqs[s].result.kind = "Trip"
        /\ trips[reqs[s].result.id].created_by = reqs[s].user_id
        /\ trips[reqs[s].result.id].status = "planning"
        /\ Len(trip_activities) = 1

\* C22: in every state the status of each existing trip is one of planning,
\* active, completed, cancelled, whatever patches update_trip has accepted,
\* a patch that sets a field to null included.
C22_StatusInSet ==
    \A t \in DOMAIN trips : trips[t].status \in TripStatus

\* the permission each mutating method asks of its caller
RequiredPermission(op) ==
    IF op = "update_trip" THEN "edit"
    ELSE IF op = "delete_trip" THEN "delete"
    ELSE IF op = "add_trip_member" THEN "invite"
    ELSE "manage_members"

\* C23: the permission check and the mutation of an operation act on the same
\* state: in every interleaving, a commit of update_trip, delete_trip,
\* add_trip_member or remove_trip_member that writes a table is made for a
\* caller who holds the required permission in the state the commit acts on;
\* no commit is made for a caller whose membership another request has removed.
C23_CheckAndMutationAtomic ==
    [][\A s \in Slots :
          ( /\ reqs[s].op \in {"update_trip", "delete_trip",
                               "add_trip_member", "remove_trip_member"}
            /\ ~ Done(s) /\ reqs'[s].pc = "done"
            /\ tables' # tables )
          => _has_trip_permission(reqs[s].trip_id, reqs[s].user_id,
                                  RequiredPermission(reqs[s].op))]_vars

\* C24: _has_trip_permission(t, u, p) is true iff a trip_members row of (t, u)
\* exists and its permission map holds key p with value true: it is false
\* without a row, with the key absent and with the key false. The step that
\* evaluates it writes no table, and the handler goes on iff it was true.
C24_HasPermissionIffTrueKey ==
    [][/\ \A t \in 0..next_trip_id, u \in UserIds, p \in PermissionNames :
             _has_trip_permission(t, u, p)
                = (\E m \in trip_members :
                      /\ m.trip_id = t /\ m.user_id = u
                      /\ p \in DOMAIN m.permissions
                      /\ m.permissions[p] = TRUE)
       /\ \A s \in Slots :
             (reqs[s].pc = "has_trip_permission" /\ reqs'[s] # reqs[s]) =>
                 /\ UNCHANGED tables
                 /\ (reqs'[s].pc # "done")
                       = (\E m \in trip_members :
                             /\ m.trip_id = reqs[s].trip_id
                             /\ m.user_id = reqs[s].user_id
                             /\ RequiredPermission(reqs[s].op) \in DOMAIN m.permissions
                             /\ m.permissions[RequiredPermission(reqs[s].op)] = TRUE)]_vars

\* a member whose map has no edit key asked for an update and was refused,
\* while another member's map holds edit with value true
C24_Witness ==
    \E s \in Slots :
        /\ DoneOp(s, "update_trip")
        /\ reqs[s].result = ReturnNone
        /\ _is_trip_member(reqs[s].trip_id, reqs[s].user_id)
        /\ "edit" \notin DOMAIN StoredPermissions(reqs[s].trip_id, reqs[s].user_id)
        /\ \E m \in trip_members :
              /\ m.trip_id = reqs[s].trip_id
              /\ "edit" \in DOMAIN m.permissions /\ m.permissions.edit

\* the trips in which u holds a membership
TripsOf(u) ==
    {t \in DOMAIN trips : \E m \in trip_members : m.trip_id = t /\ m.user_id = u}

\* C25: get_user_trips(u, skip, limit) returns the trips in which u holds a
\* membership, each once, newest first, without the first skip of them and at
\* most limit of them: its i-th row is the trip of u that has exactly
\* skip + i - 1 trips of u created after it. It writes no table.
C25_UserTripsPage ==
    [][\A s \in Slots :
          Finishes(s, "get_user_trips") =>
              LET mine == TripsOf(reqs[s].user_id)
                  skip == reqs[s].data.skip
                  limit == reqs[s].data.limit
                  left == IF Cardinality(mine) > skip THEN Cardinality(mine) - skip ELSE 0
                  rows == reqs'[s].result.rows
              IN /\ reqs'[s].result.kind = "Trips"
                 /\ Len(rows) = IF limit < left THEN limit ELSE left
                 /\ \A i \in 1..Len(rows) :
                       /\ rows[i].id \in mine
                       /\ rows[i].row = trips[rows[i].id]
                       /\ Cardinality({t \in mine : created_at(t) > created_at(rows[i].id)})
                             = skip + i - 1
                 /\ UNCHANGED tables]_vars

\* the second page of size one of a user with two trips, while a third trip
\* that is not the user's exists
C25_Witness ==
    \E s \in Slots :
        /\ DoneOp(s, "get_user_trips")
        /\ reqs[s].data = [skip |-> 1, limit |-> 1]
        /\ Cardinality(TripsOf(reqs[s].user_id)) = 2
        /\ DOMAIN trips \ TripsOf(reqs[s].user_id) # {}
        /\ Len(reqs[s].result.rows) = 1
        /\ \E t \in TripsOf(reqs[s].user_id) : t > reqs[s].result.rows[1].id

\* C26: in every state of every interleaving each existing trip has a member
\* with role organizer whose permission map grants delete and manage_members:
\* no add_trip_member, remove_trip_member or update_trip leaves a trip that
\* nobody can manage or delete.
C26_OrganizerRemains ==
    \A t \in DOMAIN trips :
        \E m \in trip_members :
            /\ m.trip_id = t
            /\ m.role = "organizer"
            /\ _has_trip_permission(t, m.user_id, "delete")
            /\ _has_trip_permission(t, m.user_id, "manage_members")

\* an organizer other than the creator was removed from a trip
C26_Witness ==
    \E s \in Slots :
        /\ DoneOp(s, "remove_trip_member")
        /\ reqs[s].result = ReturnTrue
        /\ \E m \in reqs[s].member : m.role = "organizer"
        /\ Cardinality({m \in trip_members :
                           m.trip_id = reqs[s].trip_id /\ m.role = "organizer"}) = 1

\* what each operation answers a caller when no trip has the id it names
NoTripOutcome(op) ==
    IF op \in {"get_trip_by_id", "update_trip", "get_user_role_in_trip"} THEN ReturnNone
    ELSE IF op = "delete_trip" THEN ReturnFalse
    ELSE IF op = "add_trip_member" THEN NoPermissionToAdd
    ELSE IF op = "remove_trip_member" THEN NoPermissionToRemove
    ELSE NoAccess

C28_NoPermissionBeyondCaller ==
    [][\A s \in Slots :
          (Finishes(s, "add_trip_member") /\ reqs'[s].result.kind = "TripMember") =>
              LET granted == reqs'[s].result.row.permissions IN
              \A p \in PermissionNames :
                  (p \in DOMAIN granted /\ granted[p])
                  => _has_trip_permission(reqs[s].trip_id, reqs[s].user_id, p)]_vars

\* C29: in every state each trip whose start_date and end_date are both set has
\* end_date >= start_date: create_trip is not entered with an end date before
\* the start date, and no update_trip, a patch that sets only one of the two
\* dates included, stores such a pair.
C29_EndNotBeforeStart ==
    \A t \in DOMAIN trips :
        (trips[t].start_date # "None" /\ trips[t].end_date # "None")
        => DateOrdinal(trips[t].end_date) >= DateOrdinal(trips[t].start_date)

\* a patch that sets only end_date, to a day before the trip's start, passed
\* the schema, and the trip's dates are what they were
C29_Witness ==
    \E s \in Slots :
        /\ DoneOp(s, "update_trip")
        /\ DOMAIN reqs[s].data = {"end_date"}
        /\ reqs[s].trip_id \in DOMAIN trips
        /\ _has_trip_permission(reqs[s].trip_id, reqs[s].user_id, "edit")
        /\ DateOrdinal(reqs[s].data.end_date)
              < DateOrdinal(trips[reqs[s].trip_id].start_date)
        /\ Failed(reqs[s])
        /\ trips[reqs[s].trip_id].end_date = "2024-06-10"

\* the records of trip t of the given type that name user u under key
ActivitiesNaming(t, type, key, u) ==
    {i \in 1..Len(trip_activities) :
        /\ trip_activities[i].trip_id = t
        /\ trip_activities[i].activity_type = type
        /\ trip_activities[i].activity_data[key] = u}

\* C30: in every state of every interleaving, for each existing trip t and each
\* user u other than its creator, u is a member of t iff t has exactly one more
\* member_added record naming u than member_removed records naming u, and the
\* two counts are equal otherwise.
C30_LogMatchesMembership ==
    \A t \in DOMAIN trips : \A u \in Users \ {trips[t].created_by} :
        LET added == Cardinality(ActivitiesNaming(t, "member_added", "added_user_id", u))
            removed == Cardinality(ActivitiesNaming(t, "member_removed", "removed_user_id", u))
        IN IF _is_trip_member(t, u) THEN added = removed + 1 ELSE added = removed

====
